---- MODULE Spec2Model ----
(***************************************************************************)
(* Model of ciphers.py: the alphabet loader (read_alphabet), the text      *)
(* validator (validate_text) and the three ciphers (caesar_cipher,         *)
(* vigenere_cipher, atbash_cipher).                                        *)
(*                                                                         *)
(* A Python str is modelled as a sequence of one-character strings.  A     *)
(* call's outcome is a record: kind "ok" with the returned value, or the   *)
(* name of the exception class that left the function, with the character  *)
(* the exception message names.                                            *)
(***************************************************************************)
EXTENDS Integers, Sequences, FiniteSets, TLC

VARIABLES op, stage, file, alphabet, text, ikey, skey, encrypt, out, plain, first

vars == <<op, stage, file, alphabet, text, ikey, skey, encrypt, out, plain, first>>

(***************************************************************************)
(* Bounds of the input space.                                              *)
(***************************************************************************)
MaxText == 3
MaxVText == 2
MaxKey == 2
MaxShift == 4
MaxAlpha == 3
MaxFile == 3

\* The characters texts, keys and alphabets are built from.
Chars == {"a", "b", "c", " "}
\* The characters of an alphabet file; " " and "\n" are what str.strip() removes.
FileChars == {"a", "b", " ", "\n"}
Whitespace == {" ", "\n"}

Range(s) == {s[i] : i \in 1..Len(s)}
SeqsUpTo(S, n) == UNION {[1..k -> S] : k \in 0..n}

\* Every duplicate-free string over Chars, the empty one included.
Alphabets == {a \in SeqsUpTo(Chars, Cardinality(Chars)) : Len(a) = Cardinality(Range(a))}

(***************************************************************************)
(* Outcomes.                                                               *)
(***************************************************************************)
Ok(v) == [kind |-> "ok", val |-> v, ch |-> ""]
Raise(k, c) == [kind |-> k, val |-> <<>>, ch |-> c]
NoOut == [kind |-> "none", val |-> <<>>, ch |-> ""]

(***************************************************************************)
(* Python primitives used by the code.                                     *)
(***************************************************************************)
\* str.index: the lowest 0-based position of char, -1 standing for ValueError.
Index(s, char) ==
    IF char \in Range(s)
    THEN CHOOSE i \in 0..(Len(s) - 1) :
            /\ s[i + 1] = char
            /\ \A j \in 0..(i - 1) : s[j + 1] # char
    ELSE -1

\* s[::-1]
Reverse(s) == [i \in 1..Len(s) |-> s[Len(s) + 1 - i]]

\* str.replace(' ', '')
RECURSIVE RemoveSpaces(_)
RemoveSpaces(s) ==
    IF s = <<>> THEN <<>>
    ELSE IF Head(s) = " " THEN RemoveSpaces(Tail(s))
    ELSE <<Head(s)>> \o RemoveSpaces(Tail(s))

\* str.lstrip / str.rstrip, composed by str.strip
RECURSIVE LStrip(_)
LStrip(s) ==
    IF s # <<>> /\ Head(s) \in Whitespace THEN LStrip(Tail(s)) ELSE s

RECURSIVE RStrip(_)
RStrip(s) ==
    IF s # <<>> /\ s[Len(s)] \in Whitespace
    THEN RStrip(SubSeq(s, 1, Len(s) - 1))
    ELSE s

Strip(s) == RStrip(LStrip(s))

(***************************************************************************)
(* read_alphabet                                                           *)
(***************************************************************************)
\* Variant: the duplicate check left out.
read_alphabet_nodup(f) ==
    IF ~f.exists THEN Raise("FileNotFoundError", "")
    ELSE LET a == Strip(f.content) IN
         IF a = <<>> THEN Raise("AlphabetError", "")
         ELSE Ok(a)

read_alphabet(f) ==
    IF ~f.exists THEN Raise("FileNotFoundError", "")
    ELSE LET a == Strip(f.content) IN
         IF a = <<>> THEN Raise("AlphabetError", "")
         ELSE IF Len(a) # Cardinality(Range(a)) THEN Raise("AlphabetError", "")
         ELSE Ok(a)

(***************************************************************************)
(* validate_text                                                           *)
(***************************************************************************)
\* Variant: the text scanned from its end.
RECURSIVE validate_last(_, _)
validate_last(t, a) ==
    IF t = <<>> THEN Ok(<<>>)
    ELSE LET char == t[Len(t)] IN
         IF char \notin Range(a) /\ char # " "
         THEN Raise("AlphabetError", char)
         ELSE validate_last(SubSeq(t, 1, Len(t) - 1), a)

RECURSIVE validate_text(_, _)
validate_text(t, a) ==
    IF t = <<>> THEN Ok(<<>>)
    ELSE LET char == Head(t) IN
         IF char \notin Range(a) /\ char # " "
         THEN Raise("AlphabetError", char)
         ELSE validate_text(Tail(t), a)

(***************************************************************************)
(* caesar_cipher                                                           *)
(***************************************************************************)
\* Variant: the key added in both modes.
caesar_new_idx_add(idx, key, n, enc) == (idx + key) % n

caesar_new_idx(idx, key, n, enc) ==
    IF enc THEN (idx + key) % n ELSE (idx - key) % n

RECURSIVE caesar_loop(_, _, _, _, _)
caesar_loop(rest, result, key, a, enc) ==
    IF rest = <<>> THEN Ok(result)
    ELSE LET char == Head(rest) IN
         IF char = " "
         THEN caesar_loop(Tail(rest), Append(result, " "), key, a, enc)
         ELSE LET idx == Index(a, char) IN
              IF idx = -1 THEN Raise("ValueError", char)
              ELSE IF Len(a) = 0 THEN Raise("ZeroDivisionError", "")
              ELSE caesar_loop(Tail(rest),
                               Append(result, a[caesar_new_idx(idx, key, Len(a), enc) + 1]),
                               key, a, enc)

caesar_cipher(t, key, a, enc) ==
    LET v == validate_text(t, a) IN
    IF v.kind # "ok" THEN v
    ELSE caesar_loop(t, <<>>, key, a, enc)

(***************************************************************************)
(* vigenere_cipher                                                         *)
(***************************************************************************)
vigenere_new_idx(text_idx, key_idx, n, enc) ==
    IF enc THEN (text_idx + key_idx) % n ELSE (text_idx - key_idx) % n

\* Variant: the key position advanced by translated characters only.
RECURSIVE vigenere_loop_textbook(_, _, _, _, _, _)
vigenere_loop_textbook(rest, i, result, key, a, enc) ==
    IF rest = <<>> THEN Ok(result)
    ELSE LET char == Head(rest) IN
         IF char = " "
         THEN vigenere_loop_textbook(Tail(rest), i, Append(result, " "), key, a, enc)
         ELSE LET text_idx == Index(a, char) IN
              IF text_idx = -1 THEN Raise("ValueError", char)
              ELSE IF Len(key) = 0 THEN Raise("ZeroDivisionError", "")
              ELSE LET key_idx == Index(a, key[(i % Len(key)) + 1]) IN
                   IF key_idx = -1 THEN Raise("ValueError", key[(i % Len(key)) + 1])
                   ELSE vigenere_loop_textbook(Tail(rest), i + 1,
                            Append(result, a[vigenere_new_idx(text_idx, key_idx, Len(a), enc) + 1]),
                            key, a, enc)

\* The loop of vigenere_cipher; i is enumerate's counter, key the stripped key.
RECURSIVE vigenere_loop(_, _, _, _, _, _)
vigenere_loop(rest, i, result, key, a, enc) ==
    IF rest = <<>> THEN Ok(result)
    ELSE LET char == Head(rest) IN
         IF char = " "
         THEN vigenere_loop(Tail(rest), i + 1, Append(result, " "), key, a, enc)
         ELSE LET text_idx == Index(a, char) IN
              IF text_idx = -1 THEN Raise("ValueError", char)
              ELSE IF Len(key) = 0 THEN Raise("ZeroDivisionError", "")
              ELSE LET key_idx == Index(a, key[(i % Len(key)) + 1]) IN
                   IF key_idx = -1 THEN Raise("ValueError", key[(i % Len(key)) + 1])
                   ELSE vigenere_loop(Tail(rest), i + 1,
                            Append(result, a[vigenere_new_idx(text_idx, key_idx, Len(a), enc) + 1]),
                            key, a, enc)

\* Variant: the empty key not refused.
vigenere_cipher_nokeycheck(t, key, a, enc) ==
    LET v == validate_text(t, a)
        w == validate_text(key, a)
    IN  IF v.kind # "ok" THEN v
        ELSE IF w.kind # "ok" THEN w
        ELSE vigenere_loop(t, 0, <<>>, RemoveSpaces(key), a, enc)

vigenere_cipher(t, key, a, enc) ==
    LET v == validate_text(t, a)
        w == validate_text(key, a)
    IN  IF v.kind # "ok" THEN v
        ELSE IF w.kind # "ok" THEN w
        ELSE IF key = <<>> THEN Raise("CipherError", "")
        ELSE vigenere_loop(t, 0, <<>>, RemoveSpaces(key), a, enc)

(***************************************************************************)
(* atbash_cipher                                                           *)
(***************************************************************************)
RECURSIVE atbash_loop(_, _, _, _)
atbash_loop(rest, result, a, reversed_alphabet) ==
    IF rest = <<>> THEN Ok(result)
    ELSE LET char == Head(rest) IN
         IF char = " "
         THEN atbash_loop(Tail(rest), Append(result, " "), a, reversed_alphabet)
         ELSE LET idx == Index(a, char) IN
              IF idx = -1 THEN Raise("ValueError", char)
              ELSE atbash_loop(Tail(rest), Append(result, reversed_alphabet[idx + 1]),
                               a, reversed_alphabet)

\* Variant: the text not validated.
atbash_cipher_unchecked(t, a, enc) == atbash_loop(t, <<>>, a, Reverse(a))

atbash_cipher(t, a, enc) ==
    LET v == validate_text(t, a) IN
    IF v.kind # "ok" THEN v
    ELSE atbash_loop(t, <<>>, a, Reverse(a))

(***************************************************************************)
(* The callers.  A caller picks one function of the module and its         *)
(* arguments (Init), calls it (the ...Call actions), and may feed a        *)
(* cipher's result back into the same cipher (the ...Again actions), as    *)
(* the tests and the console menu do to decrypt what was encrypted.        *)
(***************************************************************************)
NoFile == [exists |-> FALSE, content |-> <<>>]
Files == {NoFile} \cup {[exists |-> TRUE, content |-> c] : c \in SeqsUpTo(FileChars, MaxFile)}

Idle == /\ stage = "input"
        /\ out = NoOut
        /\ first = NoOut
        /\ plain = <<>>
        /\ encrypt = TRUE

InitRead ==
    /\ op = "read_alphabet"
    /\ file \in Files
    /\ alphabet = <<>> /\ text = <<>> /\ ikey = 0 /\ skey = <<>>
    /\ Idle

InitValidate ==
    /\ op = "validate_text"
    /\ file = NoFile
    /\ alphabet \in SeqsUpTo(Chars, MaxAlpha)
    /\ text \in SeqsUpTo(Chars, MaxText)
    /\ ikey = 0 /\ skey = <<>>
    /\ Idle

InitCaesar ==
    /\ op = "caesar_cipher"
    /\ file = NoFile
    /\ alphabet \in Alphabets
    /\ text \in SeqsUpTo(Chars, MaxText)
    /\ ikey \in (0 - MaxShift)..MaxShift
    /\ skey = <<>>
    /\ Idle

InitVigenere ==
    /\ op = "vigenere_cipher"
    /\ file = NoFile
    /\ alphabet \in Alphabets
    /\ text \in SeqsUpTo(Chars, MaxVText)
    /\ skey \in SeqsUpTo(Chars, MaxKey)
    /\ ikey = 0
    /\ Idle

InitAtbash ==
    /\ op = "atbash_cipher"
    /\ file = NoFile
    /\ alphabet \in Alphabets
    /\ text \in SeqsUpTo(Chars, MaxText)
    /\ ikey = 0 /\ skey = <<>>
    /\ Idle

Init == InitRead \/ InitValidate \/ InitCaesar \/ InitVigenere \/ InitAtbash

\* alphabet = read_alphabet(alphabet_file)
ReadAlphabetCall ==
    /\ op = "read_alphabet" /\ stage = "input"
    /\ out' = read_alphabet(file)
    /\ alphabet' = IF out'.kind = "ok" THEN out'.val ELSE alphabet
    /\ first' = out'
    /\ stage' = "called"
    /\ UNCHANGED <<op, file, text, ikey, skey, encrypt, plain>>

ValidateTextCall ==
    /\ op = "validate_text" /\ stage = "input"
    /\ out' = validate_text(text, alphabet)
    /\ first' = out'
    /\ stage' = "called"
    /\ UNCHANGED <<op, file, alphabet, text, ikey, skey, encrypt, plain>>

CaesarCall ==
    /\ op = "caesar_cipher" /\ stage = "input"
    /\ \E e \in BOOLEAN :
        /\ encrypt' = e
        /\ out' = caesar_cipher(text, ikey, alphabet, e)
    /\ first' = out'
    /\ plain' = text
    /\ stage' = "called"
    /\ UNCHANGED <<op, file, alphabet, text, ikey, skey>>

\* The result of the first call is passed back with the opposite mode.
CaesarAgain ==
    /\ op = "caesar_cipher" /\ stage = "called" /\ out.kind = "ok"
    /\ text' = out.val
    /\ encrypt' = ~encrypt
    /\ out' = caesar_cipher(out.val, ikey, alphabet, ~encrypt)
    /\ stage' = "again"
    /\ UNCHANGED <<op, file, alphabet, ikey, skey, plain, first>>

VigenereCall ==
    /\ op = "vigenere_cipher" /\ stage = "input"
    /\ \E e \in BOOLEAN :
        /\ encrypt' = e
        /\ out' = vigenere_cipher(text, skey, alphabet, e)
    /\ first' = out'
    /\ plain' = text
    /\ stage' = "called"
    /\ UNCHANGED <<op, file, alphabet, text, ikey, skey>>

VigenereAgain ==
    /\ op = "vigenere_cipher" /\ stage = "called" /\ out.kind = "ok"
    /\ text' = out.val
    /\ encrypt' = ~encrypt
    /\ out' = vigenere_cipher(out.val, skey, alphabet, ~encrypt)
    /\ stage' = "again"
    /\ UNCHANGED <<op, file, alphabet, ikey, skey, plain, first>>

AtbashCall ==
    /\ op = "atbash_cipher" /\ stage = "input"
    /\ \E e \in BOOLEAN :
        /\ encrypt' = e
        /\ out' = atbash_cipher(text, alphabet, e)
    /\ first' = out'
    /\ plain' = text
    /\ stage' = "called"
    /\ UNCHANGED <<op, file, alphabet, text, ikey, skey>>

\* The second call's mode flag is any of the two.
AtbashAgain ==
    /\ op = "atbash_cipher" /\ stage = "called" /\ out.kind = "ok"
    /\ text' = out.val
    /\ \E e \in BOOLEAN :
        /\ encrypt' = e
        /\ out' = atbash_cipher(out.val, alphabet, e)
    /\ stage' = "again"
    /\ UNCHANGED <<op, file, alphabet, ikey, skey, plain, first>>

Next ==
    \/ ReadAlphabetCall
    \/ ValidateTextCall
    \/ CaesarCall
    \/ CaesarAgain
    \/ VigenereCall
    \/ VigenereAgain
    \/ AtbashCall
    \/ AtbashAgain

Spec == Init /\ [][Next]_vars

TypeOK ==
    /\ op \in {"read_alphabet", "validate_text", "caesar_cipher", "vigenere_cipher", "atbash_cipher"}
    /\ stage \in {"input", "called", "again"}
    /\ encrypt \in BOOLEAN
    /\ out.kind \in {"none", "ok", "AlphabetError", "CipherError", "FileNotFoundError",
                     "ZeroDivisionError", "ValueError"}

(***************************************************************************)
(* Vocabulary of the properties, written without the operators above.      *)
(***************************************************************************)
Called == stage \in {"called", "again"}
Ciphers == {"caesar_cipher", "vigenere_cipher", "atbash_cipher"}

\* Non-empty and duplicate-free.
ValidAlphabet(a) ==
    /\ a # <<>>
    /\ \A i, j \in 1..Len(a) : a[i] = a[j] => i = j

Offends(t, i, a) == t[i] # " " /\ \A k \in 1..Len(a) : a[k] # t[i]
ValidText(t, a) == \A i \in 1..Len(t) : ~Offends(t, i, a)

\* The 0-based position of c in a duplicate-free alphabet that holds c.
Pos(a, c) == CHOOSE i \in 0..(Len(a) - 1) : a[i + 1] = c

\* The first call encrypted; a second call, if made, decrypted.
EncryptFirst == (stage = "called" /\ encrypt) \/ (stage = "again" /\ ~encrypt)

Abcdef == <<"a", "b", "c", "d", "e", "f">>

(***************************************************************************)
(* C1: Caesar round trip.  For every non-empty duplicate-free alphabet,    *)
(* whatever characters it holds, every text over the alphabet and space    *)
(* and every integer key, encrypting succeeds and decrypting the result    *)
(* with the same key gives the text back.                                  *)
(***************************************************************************)
C1_CaesarRoundTrip ==
    (/\ op = "caesar_cipher"
     /\ EncryptFirst
     /\ ValidAlphabet(alphabet)
     /\ ValidText(plain, alphabet))
    => /\ out.kind = "ok"
       /\ stage = "again" => out.val = plain

(***************************************************************************)
(* C2: Vigenere round trip.  For every non-empty duplicate-free alphabet,  *)
(* every text over the alphabet and space and every non-empty key whose    *)
(* characters are all drawn from the alphabet, both calls succeed and the  *)
(* second returns the text.                                                *)
(***************************************************************************)
C2_VigenereRoundTrip ==
    (/\ op = "vigenere_cipher"
     /\ EncryptFirst
     /\ ValidAlphabet(alphabet)
     /\ ValidText(plain, alphabet)
     /\ skey # <<>>
     /\ \A i \in 1..Len(skey) : \E k \in 1..Len(alphabet) : alphabet[k] = skey[i])
    => /\ out.kind = "ok"
       /\ stage = "again" => out.val = plain

(***************************************************************************)
(* C3: Atbash is an involution whatever the mode flags.  For every         *)
(* non-empty duplicate-free alphabet and every text over the alphabet and  *)
(* space, the first call succeeds and gives what the other mode flag       *)
(* gives, and a second call on its result, with any flag, returns the      *)
(* text.                                                                   *)
(***************************************************************************)
C3_AtbashInvolution ==
    (/\ op = "atbash_cipher"
     /\ Called
     /\ ValidAlphabet(alphabet)
     /\ ValidText(plain, alphabet))
    => /\ out.kind = "ok"
       /\ stage = "called" => out = atbash_cipher(text, alphabet, ~encrypt)
       /\ stage = "again" => out.val = plain

(***************************************************************************)
(* C4: validation failures propagate.  A cipher called on a text with a    *)
(* non-space character outside the alphabet fails with AlphabetError and   *)
(* returns no string; so does vigenere_cipher on a valid text with a key   *)
(* that has a non-space character outside the alphabet.                    *)
(***************************************************************************)
C4_ValidationPropagates ==
    (op \in Ciphers /\ Called)
    => /\ ~ValidText(text, alphabet)
          => (out.kind = "AlphabetError" /\ out.val = <<>>)
       /\ (op = "vigenere_cipher" /\ ValidText(text, alphabet) /\ ~ValidText(skey, alphabet))
          => (out.kind = "AlphabetError" /\ out.val = <<>>)

\* A cipher refused a text whose first character it could have translated.
C4_Witness ==
    /\ op = "atbash_cipher" /\ stage = "called"
    /\ Len(text) >= 2
    /\ text[1] # " " /\ ~Offends(text, 1, alphabet)
    /\ Offends(text, 2, alphabet)
    /\ out.kind = "AlphabetError" /\ out.val = <<>>

(***************************************************************************)
(* C5, as claimed: vigenere_cipher with the empty key fails with the       *)
(* general CipherError whether or not the text passes validation.          *)
(***************************************************************************)
C5_EmptyKeyAlwaysCipherError ==
    (op = "vigenere_cipher" /\ Called /\ skey = <<>>)
    => (out.kind = "CipherError" /\ out.val = <<>>)

(***************************************************************************)
(* C5, amended: vigenere_cipher with the empty key fails with the general  *)
(* CipherError, and returns nothing, when the text passes validation; when *)
(* the text does not, it fails with AlphabetError, for the text is         *)
(* validated before the key is looked at.                                  *)
(***************************************************************************)
C5_EmptyKey ==
    (op = "vigenere_cipher" /\ Called /\ skey = <<>>)
    => /\ out.val = <<>>
       /\ ValidText(text, alphabet) => out.kind = "CipherError"
       /\ ~ValidText(text, alphabet) => out.kind = "AlphabetError"

\* The empty key refused on a text that has something to translate.
C5_Witness ==
    /\ op = "vigenere_cipher" /\ stage = "called"
    /\ skey = <<>>
    /\ ValidText(text, alphabet)
    /\ \E i \in 1..Len(text) : text[i] # " "
    /\ out.kind = "CipherError"

(***************************************************************************)
(* C6: validate_text succeeds exactly when every character of the text is  *)
(* a space or a member of the alphabet, and otherwise fails with an        *)
(* AlphabetError that names the leftmost character that is neither.        *)
(***************************************************************************)
C6_Examples ==
    /\ validate_text(<<"x", "y", "z">>, <<"a", "b", "c">>) = Raise("AlphabetError", "x")
    /\ validate_text(<<"a", " ", "b", " ", "c">>, <<"a", "b", "c">>).kind = "ok"

C6_ValidateText ==
    /\ C6_Examples
    /\ (op = "validate_text" /\ stage = "called")
       => /\ out.kind = "ok" <=> ValidText(text, alphabet)
          /\ out.kind # "ok"
             => /\ out.kind = "AlphabetError"
                /\ \E i \in 1..Len(text) :
                      /\ Offends(text, i, alphabet)
                      /\ \A j \in 1..(i - 1) : ~Offends(text, j, alphabet)
                      /\ out.ch = text[i]

\* A text with two different offenders, refused for the left one.
C6_Witness ==
    /\ op = "validate_text" /\ stage = "called"
    /\ out.kind = "AlphabetError"
    /\ \E i, j \in 1..Len(text) :
          /\ 1 < i /\ i < j
          /\ Offends(text, i, alphabet) /\ Offends(text, j, alphabet)
          /\ text[i] # text[j]
          /\ out.ch = text[i]

(***************************************************************************)
(* C7: read_alphabet fails with FileNotFoundError when the file does not   *)
(* exist; otherwise, S being the content without its leading and trailing  *)
(* whitespace, it fails with AlphabetError when S is empty or has a        *)
(* character twice, and returns exactly S in every other case.  Every      *)
(* alphabet it returns is non-empty and duplicate-free.                    *)
(***************************************************************************)
\* s is c without its leading and trailing whitespace.
IsStripped(s, c) ==
    \E i \in 1..(Len(c) + 1) : \E j \in 0..Len(c) :
        /\ s = SubSeq(c, i, j)
        /\ \A k \in 1..(i - 1) : c[k] \in {" ", "\n"}
        /\ \A k \in (j + 1)..Len(c) : c[k] \in {" ", "\n"}
        /\ i <= j => (c[i] \notin {" ", "\n"} /\ c[j] \notin {" ", "\n"})
        /\ i > j => i = j + 1

C7_ReadAlphabet ==
    (op = "read_alphabet" /\ stage = "called")
    => /\ ~file.exists => out.kind = "FileNotFoundError"
       /\ file.exists
          => \E s \in SeqsUpTo(FileChars, Len(file.content)) :
                /\ IsStripped(s, file.content)
                /\ IF s = <<>> \/ ~ValidAlphabet(s)
                   THEN out.kind = "AlphabetError"
                   ELSE out = Ok(s) /\ alphabet = s
       /\ out.kind = "ok" => ValidAlphabet(out.val)

\* An alphabet returned from a file with whitespace on both sides and inside.
C7_Witness ==
    /\ op = "read_alphabet" /\ stage = "called"
    /\ file.exists
    /\ out.kind = "ok"
    /\ Len(out.val) >= 2
    /\ Len(file.content) > Len(out.val)

(***************************************************************************)
(* C8: the Caesar transformation.  For a non-empty duplicate-free alphabet *)
(* of length n, a valid text and any integer key, the result has the       *)
(* text's length; a space stays a space, and a character at position idx   *)
(* of the alphabet becomes the one at (idx + key) mod n when encrypting    *)
(* and at (idx - key) mod n when decrypting, mod being in 0..n-1.          *)
(***************************************************************************)
\* The representative of x modulo n in 0..n-1, without the % operator.
ModN(x, n) ==
    LET m == IF x < 0 THEN 0 - x ELSE x IN
    CHOOSE r \in 0..(n - 1) : \E q \in (0 - m - 1)..(m + 1) : x = q * n + r

C8_Examples ==
    /\ caesar_cipher(<<"a", "c", "e">>, 2, Abcdef, TRUE) = Ok(<<"c", "e", "a">>)
    /\ caesar_cipher(<<"c", "e", "a">>, 2, Abcdef, FALSE) = Ok(<<"a", "c", "e">>)

C8_CaesarTransformation ==
    /\ C8_Examples
    /\ (/\ op = "caesar_cipher" /\ Called
        /\ ValidAlphabet(alphabet)
        /\ ValidText(text, alphabet))
       => /\ out.kind = "ok"
          /\ Len(out.val) = Len(text)
          /\ \A p \in 1..Len(text) :
                out.val[p] =
                    IF text[p] = " " THEN " "
                    ELSE LET idx == Pos(alphabet, text[p])
                             n == Len(alphabet)
                         IN  IF encrypt THEN alphabet[ModN(idx + ikey, n) + 1]
                             ELSE alphabet[ModN(idx - ikey, n) + 1]

\* A decryption with a negative key at least as large as the alphabet, of a
\* text that has a space and a character whose shift wraps around.
C8_Witness ==
    /\ op = "caesar_cipher" /\ stage = "called"
    /\ ValidAlphabet(alphabet) /\ Len(alphabet) >= 2
    /\ ~encrypt
    /\ ikey < 0 /\ 0 - ikey > Len(alphabet)
    /\ out.kind = "ok"
    /\ \E p, q \in 1..Len(text) :
          /\ text[p] = " " /\ text[q] # " "
          /\ out.val[q] # text[q]
          /\ Pos(alphabet, out.val[q]) < Pos(alphabet, text[q])

(***************************************************************************)
(* C9: the Vigenere key stream.  K being the key without its spaces, the   *)
(* non-space character at position i of the text (from 0, spaces counted)  *)
(* is shifted by the alphabet position of K[i mod len(K)], forwards when   *)
(* encrypting and backwards when decrypting, modulo n; a space is copied   *)
(* and still advances i.  Stated of the calls with a non-empty duplicate-  *)
(* free alphabet, a valid text and a valid key that has a character other  *)
(* than space.                                                             *)
(***************************************************************************)
NotSpace(c) == c # " "

C9_Examples ==
    /\ vigenere_cipher(<<"a", "b", " ", "c", "d">>, <<"b", "a">>, Abcdef, TRUE)
         = Ok(<<"b", "b", " ", "c", "e">>)
    /\ vigenere_cipher(<<"b", "b", " ", "c", "e">>, <<"b", "a">>, Abcdef, FALSE)
         = Ok(<<"a", "b", " ", "c", "d">>)

C9_VigenereKeyStream ==
    /\ C9_Examples
    /\ LET K == SelectSeq(skey, NotSpace) IN
       (/\ op = "vigenere_cipher" /\ Called
        /\ ValidAlphabet(alphabet)
        /\ ValidText(text, alphabet)
        /\ ValidText(skey, alphabet)
        /\ K # <<>>)
       => /\ out.kind = "ok"
          /\ Len(out.val) = Len(text)
          /\ \A p \in 1..Len(text) :
                out.val[p] =
                    IF text[p] = " " THEN " "
                    ELSE LET i == p - 1
                             shift == Pos(alphabet, K[ModN(i, Len(K)) + 1])
                             idx == Pos(alphabet, text[p])
                             n == Len(alphabet)
                         IN  IF encrypt THEN alphabet[ModN(idx + shift, n) + 1]
                             ELSE alphabet[ModN(idx - shift, n) + 1]

\* A character after a space, translated with the second key character.
C9_Witness ==
    /\ op = "vigenere_cipher" /\ stage = "called"
    /\ ValidAlphabet(alphabet)
    /\ Len(text) = 2 /\ text[1] = " " /\ text[2] # " "
    /\ Len(skey) = 2 /\ skey[1] # " " /\ skey[2] # " "
    /\ out.kind = "ok"
    /\ Pos(alphabet, skey[1]) = 0 /\ Pos(alphabet, skey[2]) = 1
    /\ out.val[2] # text[2]

(***************************************************************************)
(* C10: vigenere_cipher has only typed outcomes.  For every non-empty      *)
(* duplicate-free alphabet, every text, every key (keys of spaces only     *)
(* included) and either mode, it returns a string as long as the text or   *)
(* fails with AlphabetError or with CipherError, and with nothing else.    *)
(***************************************************************************)
C10_VigenereTypedOutcomes ==
    (op = "vigenere_cipher" /\ Called /\ ValidAlphabet(alphabet))
    => /\ out.kind \in {"ok", "AlphabetError", "CipherError"}
       /\ out.kind = "ok" => Len(out.val) = Len(text)

====
